---- MODULE Spec2Model ----
(***************************************************************************)
(* Maintenance status calculation engine of the FishSpot backend           *)
(* (app/services/maintenance_calculator.py): log selection, part status,   *)
(* system roll-up and vessel roll-up, as one run of                        *)
(* calculate_vessel_maintenance_summary over its inputs.                   *)
(***************************************************************************)
EXTENDS Integers, Sequences, FiniteSets, TLC

VARIABLES all_rules, all_logs, vessel_state, now,
          pc, rules_by_system, logs_by_system, li,
          system_statuses, overall_status,
          maintenance_rules, vessel_states, maintenance_logs, trip_requests,
          calls

\* The datastore collections of one user and one vessel, and the
\* complete_trip requests between their read and their write.
store_vars == <<maintenance_rules, vessel_states, maintenance_logs, trip_requests>>

\* The arguments and the locals of one summary computation, and those of
\* the summary computations that run side by side (calls).
calc_vars == <<all_rules, all_logs, now,
               pc, rules_by_system, logs_by_system, li,
               system_statuses, overall_status, calls>>

vars == <<all_rules, all_logs, vessel_state, now,
          pc, rules_by_system, logs_by_system, li,
          system_statuses, overall_status,
          maintenance_rules, vessel_states, maintenance_logs, trip_requests,
          calls>>

(***************************************************************************)
(* Bounds of the model.  Times are whole days.                             *)
(***************************************************************************)
MaxTime == 2
MaxCounter == 1
MaxInterval == 2
MaxWarning == 1
MaxRules == 3
MaxLogs == 2

(***************************************************************************)
(* Python values.  An Optional[int] is PyNone or PyInt(n); a timestamp     *)
(* field is None, a datetime (naive or time-zone aware) or an ISO string   *)
(* (naive, with a 'Z' zone, empty, or unparseable).                        *)
(***************************************************************************)
NoneInt == [py |-> "None", n |-> 0]
PyInt(n) == [py |-> "int", n |-> n]

NoneDt == [py |-> "None", form |-> "none", t |-> 0]
Datetime(t, form) == [py |-> "datetime", form |-> form, t |-> t]
IsoStr(form, t) == [py |-> "str", form |-> form, t |-> t]

Systems == {"engine", "nets"}
Parts == {"Engine oil", "Fuel filter"}
LogKeys == Systems \X Parts

NoLog ==
  [id |-> 0, system_id |-> "", part_name |-> "",
   created_at |-> NoneDt, done_at |-> IsoStr("empty", 0),
   engine_hours_at_service |-> NoneInt, trips_at_service |-> NoneInt]

(***************************************************************************)
(* parse_dt: None -> None; a string goes through fromisoformat after       *)
(* 'Z' -> '+00:00', every exception giving None; a datetime is returned    *)
(* as it is.                                                               *)
(***************************************************************************)
parse_dt(val) ==
  IF val.py = "None" THEN NoneDt
  ELSE IF val.py = "str"
       THEN IF val.form \in {"naive", "aware"}
            THEN Datetime(val.t, val.form)
            ELSE NoneDt
       ELSE val

\* Truthiness of a parse_dt result: a datetime is always true, None is false.
Truthy(d) == d.py # "None"

\* a > b on datetimes raises TypeError when one is naive and the other aware.
DtCompareRaises(a, b) == a.form # b.form

\* int(x) if x is not None else None, for a counter stored as Optional[int].
OptInt(x) == IF x.py = "None" THEN NoneInt ELSE PyInt(x.n)

(***************************************************************************)
(* The tie-break cascade applied to a log whose (system, part) already has *)
(* an entry.  Each stage answers "replace" (the new log takes the entry    *)
(* and the loop continues), "raise" (a comparison raised) or hands over to *)
(* the next stage; the last stage answers "keep".                          *)
(***************************************************************************)
CompareTripsReplaceOnTie(log, existing_log) ==
  LET new_trips == OptInt(log.trips_at_service)
      existing_trips == OptInt(existing_log.trips_at_service)
  IN IF new_trips.py # "None" /\ existing_trips.py # "None"
        /\ new_trips.n >= existing_trips.n
     THEN "replace"
     ELSE "keep"

CompareTrips(log, existing_log) ==
  LET new_trips == OptInt(log.trips_at_service)
      existing_trips == OptInt(existing_log.trips_at_service)
  IN IF new_trips.py # "None" /\ existing_trips.py # "None"
        /\ new_trips.n > existing_trips.n
     THEN "replace"
     ELSE "keep"

CompareHours(log, existing_log) ==
  LET new_hours == OptInt(log.engine_hours_at_service)
      existing_hours == OptInt(existing_log.engine_hours_at_service)
  IN IF new_hours.py # "None" /\ existing_hours.py # "None"
        /\ new_hours.n > existing_hours.n
     THEN "replace"
     ELSE CompareTrips(log, existing_log)

CompareDone(log, existing_log) ==
  LET new_done == parse_dt(log.done_at)
      existing_done == parse_dt(existing_log.done_at)
  IN IF Truthy(new_done) /\ Truthy(existing_done)
     THEN IF DtCompareRaises(new_done, existing_done) THEN "raise"
          ELSE IF new_done.t > existing_done.t THEN "replace"
          ELSE CompareHours(log, existing_log)
     ELSE CompareHours(log, existing_log)

CompareCreated(log, existing_log) ==
  LET new_created == parse_dt(log.created_at)
      existing_created == parse_dt(existing_log.created_at)
  IN IF Truthy(new_created) /\ Truthy(existing_created)
     THEN IF DtCompareRaises(new_created, existing_created) THEN "raise"
          ELSE IF new_created.t > existing_created.t THEN "replace"
          ELSE CompareDone(log, existing_log)
     ELSE IF Truthy(new_created) /\ ~Truthy(existing_created)
          THEN "replace"
          ELSE CompareDone(log, existing_log)

(***************************************************************************)
(* One iteration of the loop over all_logs: the entry of the log's         *)
(* (system_id, part_name) is set when absent, and otherwise decided by the *)
(* cascade.  The result is the new mapping, or a raise.                    *)
(***************************************************************************)
KeepMostRecent(lbs, log) ==
  LET key == <<log.system_id, log.part_name>>
      existing_log == lbs[key]
  IN IF existing_log = NoLog
     THEN [raised |-> FALSE, map |-> [lbs EXCEPT ![key] = log]]
     ELSE LET verdict == CompareCreated(log, existing_log)
          IN IF verdict = "raise" THEN [raised |-> TRUE, map |-> lbs]
             ELSE IF verdict = "replace"
                  THEN [raised |-> FALSE, map |-> [lbs EXCEPT ![key] = log]]
                  ELSE [raised |-> FALSE, map |-> lbs]

EmptyLogsBySystem == [k \in LogKeys |-> NoLog]

\* The whole loop over a collection of logs, from the empty mapping.
RECURSIVE GroupLogs(_, _)
GroupLogs(logs, n) ==
  IF n = 0 THEN [raised |-> FALSE, map |-> EmptyLogsBySystem]
  ELSE LET before == GroupLogs(logs, n - 1)
       IN IF before.raised THEN before
          ELSE KeepMostRecent(before.map, logs[n])

(***************************************************************************)
(* calculate_part_status.                                                  *)
(***************************************************************************)
Message(text, part, n, unit) == [text |-> text, part |-> part, n |-> n, unit |-> unit]

Abs(x) == IF x < 0 THEN -x ELSE x

Unit(trigger_type) == trigger_type

\* The days branch parses done_at outside any try block: an unparseable
\* string raises ValueError, and a zoned one makes the subtraction from the
\* naive datetime.now() raise TypeError.
PartStatusRaisesAnyTrigger(rule, last_log) ==
  /\ last_log # NoLog
  /\ last_log.done_at.form # "empty"
  /\ last_log.done_at.form \in {"bad", "aware"}

PartStatusRaises(rule, last_log) ==
  /\ rule.trigger_type = "days"
  /\ last_log # NoLog
  /\ last_log.done_at.form # "empty"
  /\ last_log.done_at.form \in {"bad", "aware"}

CurrentValueNoForce(rule, state, last_log, today) ==
  IF rule.trigger_type = "hours" THEN state.engine_hours
  ELSE IF rule.trigger_type = "trips" THEN state.total_trips
  ELSE IF last_log # NoLog /\ last_log.done_at.form # "empty"
       THEN today - last_log.done_at.t
       ELSE rule.interval_value

CurrentValueClockWithoutLog(rule, state, last_log, today) ==
  IF rule.trigger_type = "hours" THEN state.engine_hours
  ELSE IF rule.trigger_type = "trips" THEN state.total_trips
  ELSE IF last_log # NoLog /\ last_log.done_at.form # "empty"
       THEN today - last_log.done_at.t
       ELSE today


\* `current` of the three numeric triggers.
CurrentValue(rule, state, last_log, today) ==
  IF rule.trigger_type = "hours" THEN state.engine_hours
  ELSE IF rule.trigger_type = "trips" THEN state.total_trips
  ELSE IF last_log # NoLog /\ last_log.done_at.form # "empty"
       THEN today - last_log.done_at.t
       ELSE rule.interval_value + 1

LastValueIgnoresLog(rule, last_log) == 0

LastValueOtherCounter(rule, last_log) ==
  LET hours == IF last_log # NoLog /\ last_log.engine_hours_at_service.py # "None"
               THEN last_log.engine_hours_at_service.n ELSE 0
      trips == IF last_log # NoLog /\ last_log.trips_at_service.py # "None"
               THEN last_log.trips_at_service.n ELSE 0
  IN IF rule.trigger_type = "hours"
     THEN IF last_log # NoLog /\ last_log.engine_hours_at_service.py # "None"
          THEN hours ELSE trips
     ELSE IF rule.trigger_type = "trips"
     THEN IF last_log # NoLog /\ last_log.trips_at_service.py # "None"
          THEN trips ELSE hours
     ELSE 0

\* `last`: the anchor, the log's counter for the trigger or 0.
LastValue(rule, last_log) ==
  IF rule.trigger_type = "hours"
  THEN IF last_log # NoLog /\ last_log.engine_hours_at_service.py # "None"
       THEN last_log.engine_hours_at_service.n ELSE 0
  ELSE IF rule.trigger_type = "trips"
  THEN IF last_log # NoLog /\ last_log.trips_at_service.py # "None"
       THEN last_log.trips_at_service.n ELSE 0
  ELSE 0

StatusOfStrictWarning(remaining, warning) ==
  IF remaining < 0 THEN "overdue"
  ELSE IF remaining = 0 THEN "due_soon"
  ELSE IF remaining < warning THEN "due_soon"
  ELSE "ok"

StatusOfZeroOverdue(remaining, warning) ==
  IF remaining <= 0 THEN "overdue"
  ELSE IF remaining <= warning THEN "due_soon"
  ELSE "ok"

\* The status decision, first match wins.
StatusOf(remaining, warning) ==
  IF remaining < 0 THEN "overdue"
  ELSE IF remaining = 0 THEN "due_soon"
  ELSE IF remaining <= warning THEN "due_soon"
  ELSE "ok"

MessageOf(rule, remaining) ==
  IF remaining < 0
  THEN Message("is overdue by", rule.part_name, Abs(remaining), Unit(rule.trigger_type))
  ELSE IF remaining = 0
  THEN Message("is due now", rule.part_name, 0, "")
  ELSE Message("due in", rule.part_name, remaining, Unit(rule.trigger_type))

\* Defined where PartStatusRaises(rule, last_log) is false.
calculate_part_status(rule, state, last_log, today) ==
  IF rule.trigger_type \in {"hours", "trips", "days"}
  THEN LET current == CurrentValue(rule, state, last_log, today)
           last == LastValue(rule, last_log)
           due_at == last + rule.interval_value
           remaining == due_at - current
       IN [name |-> rule.part_name,
           status |-> StatusOf(remaining, rule.warning_before),
           trigger_type |-> rule.trigger_type,
           current_value |-> PyInt(current),
           due_at_value |-> PyInt(due_at),
           remaining |-> PyInt(remaining),
           message |-> MessageOf(rule, remaining),
           last_service |-> last_log]
  ELSE [name |-> rule.part_name,
        status |-> "ok",
        trigger_type |-> rule.trigger_type,
        current_value |-> NoneInt,
        due_at_value |-> NoneInt,
        remaining |-> NoneInt,
        message |-> IF rule.trigger_type = "sensor"
                    THEN Message("Sensor monitoring active", "", 0, "")
                    ELSE Message("Unknown trigger type", "", 0, ""),
        last_service |-> last_log]

(***************************************************************************)
(* calculate_system_status.                                                *)
(***************************************************************************)
system_names(system_id) ==
  IF system_id = "engine" THEN "Main Engine"
  ELSE IF system_id = "nets" THEN "Nets & Gear"
  ELSE system_id

NoRemainingKey == 999999

UrgencyKey(p) == IF p.remaining.py # "None" THEN p.remaining.n ELSE NoRemainingKey

MostUrgentLastMin(parts) ==
  LET i == CHOOSE i \in 1..Len(parts) :
             /\ \A j \in 1..Len(parts) : UrgencyKey(parts[i]) <= UrgencyKey(parts[j])
             /\ \A j \in (i + 1)..Len(parts) : UrgencyKey(parts[j]) > UrgencyKey(parts[i])
  IN parts[i]

\* min(parts, key=...): the first part of the list with the smallest key.
MostUrgent(parts) ==
  LET i == CHOOSE i \in 1..Len(parts) :
             /\ \A j \in 1..Len(parts) : UrgencyKey(parts[i]) <= UrgencyKey(parts[j])
             /\ \A j \in 1..(i - 1) : UrgencyKey(parts[j]) > UrgencyKey(parts[i])
  IN parts[i]

RECURSIVE SelectByStatus(_, _)
SelectByStatus(parts, status) ==
  IF parts = <<>> THEN <<>>
  ELSE IF Head(parts).status = status
       THEN <<Head(parts)>> \o SelectByStatus(Tail(parts), status)
       ELSE SelectByStatus(Tail(parts), status)

PartLog(rule, logs) == logs[<<rule.system_id, rule.part_name>>]

SystemRaises(rules, logs) ==
  \E i \in 1..Len(rules) : PartStatusRaises(rules[i], PartLog(rules[i], logs))

calculate_system_status_DueSoonFirst(system_id, system_name, rules, state, logs, today) ==
  LET part_statuses ==
        [i \in 1..Len(rules) |->
           calculate_part_status(rules[i], state, PartLog(rules[i], logs), today)]
      overdue_parts == SelectByStatus(part_statuses, "overdue")
      due_soon_parts == SelectByStatus(part_statuses, "due_soon")
  IN [system_id |-> system_id,
      system_name |-> system_name,
      status |-> IF due_soon_parts # <<>> THEN "due_soon"
                 ELSE IF overdue_parts # <<>> THEN "overdue"
                 ELSE "operational",
      parts |-> part_statuses,
      summary_message |->
        IF due_soon_parts # <<>>
        THEN MostUrgent(due_soon_parts).message
        ELSE IF overdue_parts # <<>>
        THEN Message("part(s) overdue", "", Len(overdue_parts), "")
        ELSE Message("All systems operational", "", 0, "")]

calculate_system_status_CriticalOverdue(system_id, system_name, rules, state, logs, today) ==
  LET part_statuses ==
        [i \in 1..Len(rules) |->
           calculate_part_status(rules[i], state, PartLog(rules[i], logs), today)]
      overdue_parts == SelectByStatus(part_statuses, "overdue")
      due_soon_parts == SelectByStatus(part_statuses, "due_soon")
  IN [system_id |-> system_id,
      system_name |-> system_name,
      status |-> IF Len(overdue_parts) > 1 THEN "critical"
                 ELSE IF overdue_parts # <<>> THEN "overdue"
                 ELSE IF due_soon_parts # <<>> THEN "due_soon"
                 ELSE "operational",
      parts |-> part_statuses,
      summary_message |->
        IF overdue_parts # <<>>
        THEN Message("part(s) overdue", "", Len(overdue_parts), "")
        ELSE IF due_soon_parts # <<>>
        THEN MostUrgent(due_soon_parts).message
        ELSE Message("All systems operational", "", 0, "")]

\* Defined where SystemRaises(rules, logs) is false.
calculate_system_status(system_id, system_name, rules, state, logs, today) ==
  LET part_statuses ==
        [i \in 1..Len(rules) |->
           calculate_part_status(rules[i], state, PartLog(rules[i], logs), today)]
      overdue_parts == SelectByStatus(part_statuses, "overdue")
      due_soon_parts == SelectByStatus(part_statuses, "due_soon")
  IN [system_id |-> system_id,
      system_name |-> system_name,
      status |-> IF overdue_parts # <<>> THEN "overdue"
                 ELSE IF due_soon_parts # <<>> THEN "due_soon"
                 ELSE "operational",
      parts |-> part_statuses,
      summary_message |->
        IF overdue_parts # <<>>
        THEN Message("part(s) overdue", "", Len(overdue_parts), "")
        ELSE IF due_soon_parts # <<>>
        THEN MostUrgent(due_soon_parts).message
        ELSE Message("All systems operational", "", 0, "")]

(***************************************************************************)
(* Grouping of the rules by system, in order of first appearance, and the  *)
(* vessel-level fold.                                                      *)
(***************************************************************************)
AppendRuleNewGroup(groups, rule) ==
  Append(groups, [system_id |-> rule.system_id, rules |-> <<rule>>])


RECURSIVE AppendRule(_, _)
AppendRule(groups, rule) ==
  IF groups = <<>> THEN <<[system_id |-> rule.system_id, rules |-> <<rule>>]>>
  ELSE IF Head(groups).system_id = rule.system_id
       THEN <<[Head(groups) EXCEPT !.rules = Append(@, rule)]>> \o Tail(groups)
       ELSE <<Head(groups)>> \o AppendRule(Tail(groups), rule)

RECURSIVE GroupRules(_, _)
GroupRules(rules, n) ==
  IF n = 0 THEN <<>> ELSE AppendRule(GroupRules(rules, n - 1), rules[n])

OverallStatusDueSoonFirst(statuses) ==
  IF \E i \in 1..Len(statuses) : statuses[i].status = "due_soon" THEN "due_soon"
  ELSE IF \E i \in 1..Len(statuses) : statuses[i].status = "overdue" THEN "overdue"
  ELSE "operational"

AnySystem(statuses, status) ==
  \E i \in 1..Len(statuses) : statuses[i].status = status

OverallStatus(statuses) ==
  IF AnySystem(statuses, "overdue") THEN "overdue"
  ELSE IF AnySystem(statuses, "due_soon") THEN "due_soon"
  ELSE IF AnySystem(statuses, "critical") THEN "critical"
  ELSE IF AnySystem(statuses, "offline") THEN "offline"
  ELSE "operational"

(***************************************************************************)
(* calculate_vessel_maintenance_summary as a state machine: the rules are  *)
(* grouped, the logs are folded one per step, each system is computed in   *)
(* turn, and the systems are folded into the overall status.  An exception *)
(* ends the run in "raised", with no summary.                              *)
(***************************************************************************)
AfterLogs(groups) == IF Len(groups) > 0 THEN "systems" ELSE "overall"

GroupRulesStep ==
  /\ pc = "group_rules"
  /\ rules_by_system' = GroupRules(all_rules, Len(all_rules))
  /\ li' = 1
  /\ pc' = IF Len(all_logs) > 0 THEN "group_logs" ELSE AfterLogs(rules_by_system')
  /\ UNCHANGED <<all_rules, all_logs, vessel_state, now, logs_by_system,
                 system_statuses, overall_status>>
  /\ UNCHANGED <<store_vars, calls>>

GroupLogStepStoresParsed ==
  /\ pc = "group_logs"
  /\ li <= Len(all_logs)
  /\ LET r == KeepMostRecent(logs_by_system, all_logs[li])
     IN /\ logs_by_system' = r.map
        /\ pc' = IF r.raised THEN "raised"
                 ELSE IF li = Len(all_logs) THEN AfterLogs(rules_by_system)
                 ELSE "group_logs"
  /\ li' = li + 1
  /\ all_logs' = [all_logs EXCEPT ![li].done_at = parse_dt(@)]
  /\ UNCHANGED <<all_rules, vessel_state, now, rules_by_system,
                 system_statuses, overall_status>>
  /\ UNCHANGED <<store_vars, calls>>

GroupLogStep ==
  /\ pc = "group_logs"
  /\ li <= Len(all_logs)
  /\ LET r == KeepMostRecent(logs_by_system, all_logs[li])
     IN /\ logs_by_system' = r.map
        /\ pc' = IF r.raised THEN "raised"
                 ELSE IF li = Len(all_logs) THEN AfterLogs(rules_by_system)
                 ELSE "group_logs"
  /\ li' = li + 1
  /\ UNCHANGED <<all_rules, all_logs, vessel_state, now, rules_by_system,
                 system_statuses, overall_status>>
  /\ UNCHANGED <<store_vars, calls>>

SystemStep ==
  /\ pc = "systems"
  /\ LET group == rules_by_system[Len(system_statuses) + 1]
     IN IF SystemRaises(group.rules, logs_by_system)
        THEN /\ pc' = "raised"
             /\ UNCHANGED system_statuses
        ELSE /\ system_statuses' =
                  Append(system_statuses,
                         calculate_system_status(group.system_id,
                                                 system_names(group.system_id),
                                                 group.rules, vessel_state,
                                                 logs_by_system, now))
             /\ pc' = IF Len(system_statuses') = Len(rules_by_system)
                      THEN "overall" ELSE "systems"
  /\ UNCHANGED <<all_rules, all_logs, vessel_state, now, rules_by_system,
                 logs_by_system, li, overall_status>>
  /\ UNCHANGED <<store_vars, calls>>

OverallStep ==
  /\ pc = "overall"
  /\ overall_status' = OverallStatus(system_statuses)
  /\ pc' = "done"
  /\ UNCHANGED <<all_rules, all_logs, vessel_state, now, rules_by_system,
                 logs_by_system, li, system_statuses>>
  /\ UNCHANGED <<store_vars, calls>>

Next == GroupRulesStep \/ GroupLogStep \/ SystemStep \/ OverallStep

(***************************************************************************)
(* Inputs.                                                                 *)
(***************************************************************************)
CreatedValues == {NoneDt} \cup {Datetime(t, "naive") : t \in 1..MaxTime}
DoneValues ==
  {IsoStr("empty", 0), IsoStr("bad", 0), IsoStr("aware", 1)}
    \cup {IsoStr("naive", t) : t \in 1..MaxTime}
CounterValues == {NoneInt} \cup {PyInt(n) : n \in 0..MaxCounter}

MaintenanceLog(id, system_id, part_name, created_at, done_at, hours, trips) ==
  [id |-> id, system_id |-> system_id, part_name |-> part_name,
   created_at |-> created_at, done_at |-> done_at,
   engine_hours_at_service |-> hours, trips_at_service |-> trips]

MaintenanceRule(system_id, part_name, trigger_type, interval_value, warning_before) ==
  [system_id |-> system_id, part_name |-> part_name, trigger_type |-> trigger_type,
   interval_value |-> interval_value, warning_before |-> warning_before]

VesselState(engine_hours, total_trips) ==
  [engine_hours |-> engine_hours, total_trips |-> total_trips,
   last_trip_date |-> NoneDt]

LogsOf(id, system_id, part_name, created, done) ==
  {MaintenanceLog(id, system_id, part_name, c, d, h, t) :
     c \in created, d \in done, h \in CounterValues, t \in CounterValues}

\* A vessel_states document: absent, or present with each counter field
\* either set or missing.
NoState == [exists |-> FALSE, engine_hours |-> NoneInt, total_trips |-> NoneInt]
StateDoc(engine_hours, total_trips) ==
  [exists |-> TRUE, engine_hours |-> engine_hours, total_trips |-> total_trips]

TripIds == {1, 2}
NoTrip == [active |-> FALSE, engine_hours |-> 0, total_trips |-> 0]

EmptyStore ==
  /\ maintenance_rules = <<>>
  /\ vessel_states = NoState
  /\ maintenance_logs = <<>>
  /\ trip_requests = [r \in TripIds |-> NoTrip]

CallIds == {1, 2}

\* An invocation that has not been made.
NoCall ==
  [all_rules |-> <<>>, all_logs |-> <<>>, vessel_state |-> VesselState(0, 0),
   now |-> 0, pc |-> "idle", rules_by_system |-> <<>>,
   logs_by_system |-> EmptyLogsBySystem, li |-> 0,
   system_statuses |-> <<>>, overall_status |-> ""]

InitRun ==
  /\ EmptyStore
  /\ calls = [i \in CallIds |-> NoCall]
  /\ pc = "group_rules"
  /\ rules_by_system = <<>>
  /\ logs_by_system = EmptyLogsBySystem
  /\ li = 0
  /\ system_statuses = <<>>
  /\ overall_status = ""

\* Two logs of one part, and an hours rule on that part.
InitSelect ==
  /\ all_rules = <<MaintenanceRule("engine", "Engine oil", "hours", MaxInterval, 0)>>
  /\ \E a \in LogsOf(1, "engine", "Engine oil", CreatedValues, DoneValues),
        b \in LogsOf(2, "engine", "Engine oil", CreatedValues, DoneValues) :
       all_logs = <<a, b>>
  /\ vessel_state = VesselState(0, 0)
  /\ now = MaxTime + 1
  /\ InitRun

SpecSelect == InitSelect /\ [][Next]_vars

\* One rule of any trigger type, at most one log of its part, any counters.
InitPart ==
  /\ \E tt \in {"hours", "trips", "days", "sensor"},
        iv \in (-1)..MaxInterval, wb \in (-1)..MaxWarning :
       all_rules = <<MaintenanceRule("engine", "Engine oil", tt, iv, wb)>>
  /\ all_logs \in {<<>>} \cup
       {<<l>> : l \in LogsOf(1, "engine", "Engine oil", {NoneDt}, DoneValues)}
  /\ \E eh \in 0..(MaxCounter + 1), tr \in 0..(MaxCounter + 1) :
       vessel_state = VesselState(eh, tr)
  /\ now \in {1, MaxTime + 1}
  /\ InitRun

SpecPart == InitPart /\ [][Next]_vars

(***************************************************************************)
(* Log selection (SpecSelect).                                             *)
(***************************************************************************)
\* The run returned a summary.
Returned == pc = "done"

\* The part status of the first rule, and the log it reports as last_service.
FirstPart == system_statuses[1].parts[1]
SelectedLog == FirstPart.last_service

\* The input holds exactly two logs, both of the first rule's part.
TwoLogsOfPart ==
  /\ Len(all_rules) = 1
  /\ Len(all_logs) = 2
  /\ \A i \in 1..2 : /\ all_logs[i].system_id = all_rules[1].system_id
                     /\ all_logs[i].part_name = all_rules[1].part_name

LogA == all_logs[1]
LogB == all_logs[2]

CascadeFields(log) ==
  <<log.created_at, log.done_at, log.engine_hours_at_service, log.trips_at_service>>

\* The same two logs supplied in the other order.
SwappedRun == GroupLogs(<<LogB, LogA>>, 2)
SwappedSelected == SwappedRun.map[<<all_rules[1].system_id, all_rules[1].part_name>>]

HasCreated(log) == log.created_at.py # "None"
DoneOf(log) == parse_dt(log.done_at)
BothDone(a, b) == Truthy(DoneOf(a)) /\ Truthy(DoneOf(b))

LaterCreated == IF LogA.created_at.t > LogB.created_at.t THEN LogA ELSE LogB

\* C2: two logs of a part that both have a created_at, with different
\* timestamps: last_service is the one with the later created_at.
C2_LaterCreatedSelected ==
  (Returned /\ TwoLogsOfPart /\ HasCreated(LogA) /\ HasCreated(LogB)
     /\ LogA.created_at.t # LogB.created_at.t)
    => SelectedLog = LaterCreated

\* C3: two logs of a part of which exactly one has a created_at:
\* last_service is the log that has it.
C3_OnlyCreatedSelected ==
  (Returned /\ TwoLogsOfPart /\ HasCreated(LogA) # HasCreated(LogB))
    => SelectedLog = (IF HasCreated(LogA) THEN LogA ELSE LogB)

LaterDone == IF DoneOf(LogA).t > DoneOf(LogB).t THEN LogA ELSE LogB
HigherHours ==
  IF LogA.engine_hours_at_service.n > LogB.engine_hours_at_service.n
  THEN LogA ELSE LogB
BothHours ==
  /\ LogA.engine_hours_at_service.py # "None"
  /\ LogB.engine_hours_at_service.py # "None"

\* C4: two logs of a part, neither with a created_at: when both done_at
\* parse and differ, last_service is the one with the later done_at; when the
\* done_at are equal and both engine_hours_at_service are present and differ,
\* last_service is the one with the higher engine_hours_at_service.
C4_DoneThenHours ==
  (Returned /\ TwoLogsOfPart /\ ~HasCreated(LogA) /\ ~HasCreated(LogB))
    => /\ (BothDone(LogA, LogB) /\ DoneOf(LogA).t # DoneOf(LogB).t)
            => SelectedLog = LaterDone
       /\ (BothDone(LogA, LogB) /\ DoneOf(LogA) = DoneOf(LogB) /\ BothHours
             /\ LogA.engine_hours_at_service # LogB.engine_hours_at_service)
            => SelectedLog = HigherHours

\* A comparison of the cascade is tied when its two values are equal or not
\* both present.
TiedCreated(a, b) == HasCreated(a) = HasCreated(b) /\ a.created_at = b.created_at
TiedDone(a, b) == BothDone(a, b) => DoneOf(a) = DoneOf(b)
TiedCounter(x, y) == (x.py # "None" /\ y.py # "None") => x = y
Tied(a, b) ==
  /\ TiedCreated(a, b)
  /\ TiedDone(a, b)
  /\ TiedCounter(a.engine_hours_at_service, b.engine_hours_at_service)
  /\ TiedCounter(a.trips_at_service, b.trips_at_service)

\* C1: for two logs of a part that are not tied on every comparison, whenever
\* both orders return, the log reported as last_service for the order A,B has
\* the created_at, done_at, engine_hours_at_service and trips_at_service of
\* the log selected for the order B,A.  (Ties are left to the first-seen rule.)
C1_OrderIndependent ==
  (Returned /\ TwoLogsOfPart /\ ~Tied(LogA, LogB) /\ ~SwappedRun.raised)
    => CascadeFields(SelectedLog) = CascadeFields(SwappedSelected)

\* C5: two logs of a part that are tied on every comparison of the cascade:
\* the run returns and last_service is the log that came first in the input.
C5_FirstSeenKept ==
  (TwoLogsOfPart /\ Tied(LogA, LogB) /\ pc \in {"done", "raised"})
    => Returned /\ SelectedLog = LogA

\* C5 witness: a returned run on two logs equal in all four fields.
C5_Witness ==
  /\ Returned /\ TwoLogsOfPart
  /\ CascadeFields(LogA) = CascadeFields(LogB)
  /\ HasCreated(LogA) /\ Truthy(DoneOf(LogA))
  /\ LogA.engine_hours_at_service.py = "int" /\ LogA.trips_at_service.py = "int"
  /\ SelectedLog = LogA

(***************************************************************************)
(* Part status (SpecPart).                                                 *)
(***************************************************************************)
FirstRule == all_rules[1]

\* The counter of the vessel and of a log that a trigger type reads.
VesselCounter(trigger_type) ==
  IF trigger_type = "hours" THEN vessel_state.engine_hours ELSE vessel_state.total_trips
LogCounter(log, trigger_type) ==
  IF trigger_type = "hours" THEN log.engine_hours_at_service ELSE log.trips_at_service

OneRuleItsLogs ==
  /\ Len(all_rules) = 1
  /\ \A i \in 1..Len(all_logs) : /\ all_logs[i].system_id = FirstRule.system_id
                                 /\ all_logs[i].part_name = FirstRule.part_name

\* C6: an hours or trips rule whose part has one log carrying the matching
\* counter: that log is last_service, due_at_value is the log's counter plus
\* interval_value, current_value is the vessel's counter and remaining is
\* due_at_value minus current_value.
C6_DueFromLogAnchor ==
  (Returned /\ OneRuleItsLogs /\ Len(all_logs) = 1
     /\ FirstRule.trigger_type \in {"hours", "trips"}
     /\ LogCounter(all_logs[1], FirstRule.trigger_type).py = "int")
    => LET anchor == LogCounter(all_logs[1], FirstRule.trigger_type).n
           current == VesselCounter(FirstRule.trigger_type)
       IN /\ FirstPart.last_service = all_logs[1]
          /\ FirstPart.due_at_value = PyInt(anchor + FirstRule.interval_value)
          /\ FirstPart.current_value = PyInt(current)
          /\ FirstPart.remaining = PyInt(anchor + FirstRule.interval_value - current)

\* C6 witness: trips rule, interval 2, log at 1 trip, vessel at 2 trips:
\* due at 3, remaining 1.
C6_Witness ==
  /\ Returned /\ OneRuleItsLogs /\ Len(all_logs) = 1
  /\ FirstRule.trigger_type = "trips" /\ FirstRule.interval_value = 2
  /\ all_logs[1].trips_at_service = PyInt(1)
  /\ all_logs[1].engine_hours_at_service = PyInt(0)
  /\ vessel_state.total_trips = 2
  /\ FirstPart.due_at_value = PyInt(3)
  /\ FirstPart.remaining = PyInt(1)

\* C7: an hours or trips rule whose part has no log, or whose log has no
\* value for the matching counter: due_at_value is interval_value and
\* remaining is interval_value minus the vessel's counter.
C7_AnchorZeroWithoutCounter ==
  (Returned /\ OneRuleItsLogs /\ Len(all_logs) <= 1
     /\ FirstRule.trigger_type \in {"hours", "trips"}
     /\ (Len(all_logs) = 1
           => LogCounter(all_logs[1], FirstRule.trigger_type).py = "None"))
    => /\ FirstPart.due_at_value = PyInt(FirstRule.interval_value)
       /\ FirstPart.remaining =
            PyInt(FirstRule.interval_value - VesselCounter(FirstRule.trigger_type))

\* C7 witness: hours rule, interval 2, a log without engine hours but with a
\* trip count, vessel at 1 engine hour: due at 2, remaining 1.
C7_Witness ==
  /\ Returned /\ OneRuleItsLogs /\ Len(all_logs) = 1
  /\ FirstRule.trigger_type = "hours" /\ FirstRule.interval_value = 2
  /\ all_logs[1].engine_hours_at_service = NoneInt
  /\ all_logs[1].trips_at_service = PyInt(1)
  /\ vessel_state.engine_hours = 1
  /\ FirstPart.due_at_value = PyInt(2)
  /\ FirstPart.remaining = PyInt(1)

\* C8: a days rule whose part has no log: the run returns, with
\* current_value = interval_value + 1, due_at_value = interval_value,
\* remaining = -1 and status overdue.
C8_DaysNoLogForcedOverdue ==
  (pc \in {"done", "raised"} /\ Len(all_rules) = 1 /\ all_logs = <<>>
     /\ FirstRule.trigger_type = "days")
    => /\ Returned
       /\ FirstPart.current_value = PyInt(FirstRule.interval_value + 1)
       /\ FirstPart.due_at_value = PyInt(FirstRule.interval_value)
       /\ FirstPart.remaining = PyInt(-1)
       /\ FirstPart.status = "overdue"

\* C8 witness: days rule of interval 2 and warning 1 with no log, reported
\* overdue with current value 3.
C8_Witness ==
  /\ Returned /\ Len(all_rules) = 1 /\ all_logs = <<>>
  /\ FirstRule.trigger_type = "days"
  /\ FirstRule.interval_value = 2 /\ FirstRule.warning_before = 1
  /\ FirstPart.current_value = PyInt(3)
  /\ FirstPart.status = "overdue"

\* Every part status of the summary, with the rule it was computed from.
PartIndices ==
  {<<s, i>> \in (1..Len(system_statuses)) \X (1..Len(all_rules)) :
     i <= Len(system_statuses[s].parts)}
PartAt(x) == system_statuses[x[1]].parts[x[2]]
RuleAt(x) == rules_by_system[x[1]].rules[x[2]]

\* C9: every part status of a returned summary is overdue if and only if its
\* remaining value is present and less than 0.
C9_OverdueIffNegative ==
  Returned =>
    \A x \in PartIndices :
      PartAt(x).status = "overdue"
        <=> (PartAt(x).remaining.py = "int" /\ PartAt(x).remaining.n < 0)

\* C9 witness: an hours part one hour past its due point, reported overdue.
C9_Witness ==
  /\ Returned /\ Len(all_rules) = 1
  /\ FirstRule.trigger_type = "hours"
  /\ FirstPart.remaining = PyInt(-1)
  /\ FirstPart.status = "overdue"

\* C10: every part status of a returned summary is due_soon if and only if
\* its remaining value is present and 0 <= remaining <= warning_before.
C10_DueSoonIffWithinWarning ==
  Returned =>
    \A x \in PartIndices :
      PartAt(x).status = "due_soon"
        <=> (/\ PartAt(x).remaining.py = "int"
             /\ 0 <= PartAt(x).remaining.n
             /\ PartAt(x).remaining.n <= RuleAt(x).warning_before)

NumericTriggers == {"hours", "trips", "days"}

\* C11 (as claimed, for rules with warning_before >= 0): every part status of
\* a returned summary is ok if and only if its remaining value is present and
\* greater than warning_before.
C11_OkIffAboveWarning ==
  Returned =>
    \A x \in PartIndices :
      RuleAt(x).warning_before >= 0 =>
        (PartAt(x).status = "ok"
           <=> (/\ PartAt(x).remaining.py = "int"
                /\ PartAt(x).remaining.n > RuleAt(x).warning_before))

\* C11 (amended): a part status of an hours, trips or days rule is ok if and
\* only if its remaining value is greater than warning_before and greater
\* than 0; a part status of a sensor rule is ok and has no remaining value.
C11_OkIffAboveWarningNumeric ==
  Returned =>
    \A x \in PartIndices :
      IF RuleAt(x).trigger_type \in NumericTriggers
      THEN /\ PartAt(x).remaining.py = "int"
           /\ PartAt(x).status = "ok"
                <=> (/\ PartAt(x).remaining.n > RuleAt(x).warning_before
                     /\ PartAt(x).remaining.n > 0)
      ELSE PartAt(x).status = "ok" /\ PartAt(x).remaining = NoneInt

\* C11 witness: an hours part with remaining 2 above its warning 1, reported ok.
C11_Witness ==
  /\ Returned /\ Len(all_rules) = 1
  /\ FirstRule.trigger_type = "hours" /\ FirstRule.warning_before = 1
  /\ FirstPart.remaining = PyInt(2)
  /\ FirstPart.status = "ok"

\* C12: no run of the summary computation ends by raising.
C12_NeverRaises == pc # "raised"

SensorMessage == Message("Sensor monitoring active", "", 0, "")

\* C20: a sensor rule, with any counters and any log of its part: the run
\* returns, and the part is ok with the placeholder message, no current_value,
\* due_at_value or remaining, and the selected log as last_service.
C20_SensorAlwaysOk ==
  (pc \in {"done", "raised"} /\ OneRuleItsLogs /\ Len(all_logs) <= 1
     /\ FirstRule.trigger_type = "sensor")
    => /\ Returned
       /\ FirstPart.status = "ok"
       /\ FirstPart.message = SensorMessage
       /\ FirstPart.current_value = NoneInt
       /\ FirstPart.due_at_value = NoneInt
       /\ FirstPart.remaining = NoneInt
       /\ FirstPart.last_service = (IF all_logs = <<>> THEN NoLog ELSE all_logs[1])

\* C20 witness: a sensor rule whose log has an unparseable done_at, on a
\* vessel past the rule's interval, reported ok.
C20_Witness ==
  /\ Returned /\ OneRuleItsLogs /\ Len(all_logs) = 1
  /\ FirstRule.trigger_type = "sensor"
  /\ all_logs[1].done_at.form = "bad"
  /\ vessel_state.engine_hours > FirstRule.interval_value
  /\ FirstRule.interval_value > 0
  /\ FirstPart.status = "ok"

(***************************************************************************)
(* Roll-up (SpecRollup): up to MaxRules rules over two systems, hours      *)
(* rules on one part and trips rules on the other, at most one log.        *)
(***************************************************************************)
SeqsUpTo(S, n) == UNION {[1..k -> S] : k \in 0..n}

RollupRules ==
  {MaintenanceRule(sys, tp[2], tp[1], iv, MaxWarning) :
     sys \in Systems,
     tp \in {<<"hours", "Engine oil">>, <<"trips", "Fuel filter">>},
     iv \in 1..MaxInterval}

RollupLog ==
  MaintenanceLog(1, "engine", "Engine oil", NoneDt, IsoStr("naive", 1),
                 PyInt(MaxCounter), NoneInt)

InitRollup ==
  /\ all_rules \in SeqsUpTo(RollupRules, MaxRules)
  /\ all_logs \in {<<>>, <<RollupLog>>}
  /\ \E eh \in 0..(MaxCounter + 1), tr \in {0, MaxCounter + 1} :
       vessel_state = VesselState(eh, tr)
  /\ now = MaxTime + 1
  /\ InitRun

SpecRollup == InitRollup /\ [][Next]_vars

HasPart(sys, status) ==
  \E i \in 1..Len(sys.parts) : sys.parts[i].status = status

\* C13: in a returned summary every system is overdue if and only if one of
\* its parts is overdue, due_soon if and only if none is overdue and one is
\* due_soon, and operational otherwise.
C13_SystemRollup ==
  Returned =>
    \A s \in 1..Len(system_statuses) :
      LET sys == system_statuses[s]
      IN /\ sys.status = "overdue" <=> HasPart(sys, "overdue")
         /\ sys.status = "due_soon"
              <=> (~HasPart(sys, "overdue") /\ HasPart(sys, "due_soon"))
         /\ sys.status = "operational"
              <=> (~HasPart(sys, "overdue") /\ ~HasPart(sys, "due_soon"))

\* C13 witness: a system with an overdue, a due_soon and an ok part is
\* reported overdue.
C13_Witness ==
  /\ Returned
  /\ \E s \in 1..Len(system_statuses) :
       LET sys == system_statuses[s]
       IN /\ HasPart(sys, "overdue") /\ HasPart(sys, "due_soon") /\ HasPart(sys, "ok")
          /\ sys.status = "overdue"

HasSystem(status) ==
  \E s \in 1..Len(system_statuses) : system_statuses[s].status = status

\* C14: the overall status of a returned summary is overdue when a system is
\* overdue, otherwise due_soon when a system is due_soon, otherwise critical,
\* otherwise offline, otherwise operational.
C14_VesselRollup ==
  Returned =>
    overall_status =
      (IF HasSystem("overdue") THEN "overdue"
       ELSE IF HasSystem("due_soon") THEN "due_soon"
       ELSE IF HasSystem("critical") THEN "critical"
       ELSE IF HasSystem("offline") THEN "offline"
       ELSE "operational")

\* C14 witness: systems [due_soon, overdue] give the overall status overdue.
C14_Witness ==
  /\ Returned
  /\ Len(system_statuses) = 2
  /\ system_statuses[1].status = "due_soon"
  /\ system_statuses[2].status = "overdue"
  /\ overall_status = "overdue"

\* C15: the summary_message of a due_soon system is the message of a due_soon
\* part whose remaining is the smallest among the due_soon parts and that
\* comes before every other due_soon part with that remaining.
C15_MostUrgentMessage ==
  Returned =>
    \A s \in 1..Len(system_statuses) :
      LET sys == system_statuses[s]
          DueSoon == {i \in 1..Len(sys.parts) : sys.parts[i].status = "due_soon"}
      IN sys.status = "due_soon" =>
           \E i \in DueSoon :
             /\ sys.summary_message = sys.parts[i].message
             /\ \A j \in DueSoon : sys.parts[i].remaining.n <= sys.parts[j].remaining.n
             /\ \A j \in DueSoon :
                  j < i => sys.parts[j].remaining.n > sys.parts[i].remaining.n

\* C15 witness: a due_soon system whose first part is less urgent than its
\* second and third, which share the smallest remaining.
C15_Witness ==
  /\ Returned
  /\ \E s \in 1..Len(system_statuses) :
       LET sys == system_statuses[s]
       IN /\ sys.status = "due_soon" /\ Len(sys.parts) = 3
          /\ sys.parts[1].remaining = PyInt(1)
          /\ sys.parts[2].remaining = PyInt(0)
          /\ sys.parts[3].remaining = PyInt(0)
          /\ sys.parts[2].message # sys.parts[3].message
          /\ sys.summary_message = sys.parts[2].message

(***************************************************************************)
(* Whole summary (SpecSummary): up to MaxRules hours rules over the two    *)
(* systems and the two parts, and up to MaxLogs logs over the same keys.   *)
(***************************************************************************)
SummaryRules ==
  {MaintenanceRule(k[1], k[2], "hours", MaxInterval, MaxWarning) : k \in LogKeys}

SummaryLogs(keys) ==
  [i \in 1..Len(keys) |->
     MaintenanceLog(i, keys[i][1], keys[i][2], NoneDt, IsoStr("naive", 1),
                    PyInt(MaxCounter), NoneInt)]

InitSummary ==
  /\ all_rules \in SeqsUpTo(SummaryRules, MaxRules)
  /\ \E keys \in SeqsUpTo(LogKeys, MaxLogs) : all_logs = SummaryLogs(keys)
  /\ \E eh \in 0..(MaxCounter + 1) : vessel_state = VesselState(eh, 0)
  /\ now = MaxTime + 1
  /\ InitRun

SpecSummary == InitSummary /\ [][Next]_vars

RuleSystems == {all_rules[i].system_id : i \in 1..Len(all_rules)}

RulesOfSystem(system_id) ==
  SelectSeq(all_rules, LAMBDA r : r.system_id = system_id)

\* C19: a returned summary has exactly one system status per distinct
\* system_id of the rules, and the parts of each system status are, in rule
\* order, the part statuses of the rules of that system, each computed from
\* the rule and the log selected for (system_id, part_name).
C19_OneStatusPerSystemAndRule ==
  Returned =>
    /\ Len(system_statuses) = Cardinality(RuleSystems)
    /\ {system_statuses[s].system_id : s \in 1..Len(system_statuses)} = RuleSystems
    /\ \A s \in 1..Len(system_statuses) :
         LET sys == system_statuses[s]
             rules == RulesOfSystem(sys.system_id)
         IN /\ Len(sys.parts) = Len(rules)
            /\ \A i \in 1..Len(rules) :
                 sys.parts[i] =
                   calculate_part_status(
                     rules[i], vessel_state,
                     logs_by_system[<<rules[i].system_id, rules[i].part_name>>],
                     now)

\* C19 witness: rules of engine, nets, engine give two system statuses, the
\* first with the two engine parts in rule order, one computed from a log and
\* one from no log.
C19_Witness ==
  /\ Returned
  /\ Len(all_rules) = 3
  /\ all_rules[1].system_id = "engine"
  /\ all_rules[2].system_id = "nets"
  /\ all_rules[3].system_id = "engine"
  /\ all_rules[1].part_name # all_rules[3].part_name
  /\ Len(system_statuses) = 2
  /\ Len(system_statuses[1].parts) = 2
  /\ system_statuses[1].parts[1].name = all_rules[1].part_name
  /\ system_statuses[1].parts[2].name = all_rules[3].part_name
  /\ system_statuses[1].parts[1].last_service = NoLog
  /\ system_statuses[1].parts[2].last_service # NoLog

(***************************************************************************)
(* Repeated calls (SpecPart): the whole aggregator as one function of its  *)
(* arguments and of the clock it reads.                                    *)
(***************************************************************************)
calculate_vessel_maintenance_summary(rules, state, logs, today) ==
  LET groups == GroupRules(rules, Len(rules))
      folded == GroupLogs(logs, Len(logs))
  IN IF \/ folded.raised
        \/ \E g \in 1..Len(groups) : SystemRaises(groups[g].rules, folded.map)
     THEN [raised |-> TRUE, systems |-> <<>>, overall_status |-> "operational"]
     ELSE LET systems ==
                [g \in 1..Len(groups) |->
                   calculate_system_status(groups[g].system_id,
                                           system_names(groups[g].system_id),
                                           groups[g].rules, state, folded.map, today)]
          IN [raised |-> FALSE, systems |-> systems,
              overall_status |-> OverallStatus(systems)]

\* The summary the run returned, without generated_at.
FirstSummary ==
  [raised |-> FALSE, systems |-> system_statuses, overall_status |-> overall_status]

\* The summary of a second call with the same arguments at time t.
SecondSummary(t) == calculate_vessel_maintenance_summary(all_rules, vessel_state, all_logs, t)

CallTimes == 1..(MaxTime + 2)

\* Some days rule measures the time elapsed since the done_at of its log.
DaysSinceLog ==
  \E i \in 1..Len(all_rules) :
    LET log == logs_by_system[<<all_rules[i].system_id, all_rules[i].part_name>>]
    IN /\ all_rules[i].trigger_type = "days"
       /\ log # NoLog
       /\ log.done_at.form # "empty"

\* C16 (as stated): a second call with the same rules, vessel state and logs
\* returns the same summary, generated_at aside, whatever the time of the call
\* (shown on rules with a positive interval and a non-negative warning).
C16_IdempotentAtAnyTime ==
  (Returned /\ FirstRule.interval_value > 0 /\ FirstRule.warning_before >= 0)
    => \A t \in CallTimes : SecondSummary(t) = FirstSummary

\* C16 (amended): a second call with the same rules, vessel state and logs
\* returns the same summary, generated_at aside, when it is made at the same
\* time or when no days rule measures the time since the done_at of its log.
C16_IdempotentUnlessDaysElapse ==
  Returned =>
    \A t \in CallTimes :
      (t = now \/ ~DaysSinceLog) => SecondSummary(t) = FirstSummary

\* C16 witness: a days rule without a log gives the same summary a day later,
\* and so does an hours rule with a log.
C16_Witness ==
  /\ Returned
  /\ ~DaysSinceLog
  /\ \/ FirstRule.trigger_type = "days" /\ all_logs = <<>>
     \/ FirstRule.trigger_type = "hours" /\ all_logs # <<>>
  /\ SecondSummary(now + 1) = FirstSummary

(***************************************************************************)
(* The rules API (app/api/v1/maintenance_rules.py) over the rules          *)
(* collection of one user (SpecRules).  pydantic checks the type of        *)
(* interval_value and warning_before, not their range.                     *)
(***************************************************************************)
\* The rules of seed_default_rules.
default_rules ==
  << MaintenanceRule("engine", "Engine oil", "hours", 100, 20),
     MaintenanceRule("engine", "Fuel filter", "hours", 300, 30),
     MaintenanceRule("nets", "Net inspection", "trips", 3, 1),
     MaintenanceRule("safety", "Lifejacket check", "days", 180, 14),
     MaintenanceRule("electronics", "Battery check", "days", 365, 30) >>

\* Bodies of CreateMaintenanceRuleRequest and UpdateMaintenanceRuleRequest.
IntervalRequests == {0, MaxInterval}
WarningRequests == {-1, MaxWarning}

create_maintenance_rule ==
  /\ Len(maintenance_rules) < MaxRules
  /\ \E iv \in IntervalRequests, wb \in WarningRequests :
       maintenance_rules' =
         Append(maintenance_rules,
                MaintenanceRule("engine", "Engine oil", "hours", iv, wb))
  /\ UNCHANGED <<vessel_states, maintenance_logs, trip_requests, vessel_state>>
  /\ UNCHANGED calc_vars

\* $set of the fields of the request that are not None; a request with no
\* field, or for a rule that does not exist, is answered with an error.
update_maintenance_rule ==
  /\ \E i \in 1..Len(maintenance_rules),
        iv \in {NoneInt} \cup {PyInt(v) : v \in IntervalRequests},
        wb \in {NoneInt} \cup {PyInt(v) : v \in WarningRequests} :
       /\ iv # NoneInt \/ wb # NoneInt
       /\ maintenance_rules' =
            [maintenance_rules EXCEPT
               ![i].interval_value = IF iv = NoneInt THEN @ ELSE iv.n,
               ![i].warning_before = IF wb = NoneInt THEN @ ELSE wb.n]
  /\ UNCHANGED <<vessel_states, maintenance_logs, trip_requests, vessel_state>>
  /\ UNCHANGED calc_vars

\* Inserts the default rules when the user has none.
seed_default_rules ==
  /\ maintenance_rules' =
       IF Len(maintenance_rules) > 0 THEN maintenance_rules ELSE default_rules
  /\ UNCHANGED <<vessel_states, maintenance_logs, trip_requests, vessel_state>>
  /\ UNCHANGED calc_vars

NextRules ==
  \/ create_maintenance_rule
  \/ update_maintenance_rule
  \/ seed_default_rules

\* No summary is being computed while the store is exercised.
InitIdle ==
  /\ all_rules = <<>>
  /\ all_logs = <<>>
  /\ vessel_state = VesselState(0, 0)
  /\ now = 1
  /\ pc = "done"
  /\ rules_by_system = <<>>
  /\ logs_by_system = EmptyLogsBySystem
  /\ li = 0
  /\ system_statuses = <<>>
  /\ overall_status = "operational"
  /\ calls = [i \in CallIds |-> NoCall]

InitRules == EmptyStore /\ InitIdle

SpecRules == InitRules /\ [][NextRules]_vars

\* C18: every stored rule has interval_value > 0 and warning_before >= 0.
C18_StoredRulesValid ==
  \A i \in 1..Len(maintenance_rules) :
    /\ maintenance_rules[i].interval_value > 0
    /\ maintenance_rules[i].warning_before >= 0

(***************************************************************************)
(* The vessel state API over the state document and the logs of one vessel *)
(* (SpecVessel).  complete_trip reads the document and writes it back in   *)
(* two database calls, between which other requests run.                   *)
(***************************************************************************)
\* state.get(field, 0)
Get(field) == IF field.py = "None" THEN 0 ELSE field.n

\* Counters are kept within these values by the guards.
StoredCounters == (-1)..MaxCounter

\* int(trip_duration_hours) of a request.
TripDurations == {-1, 0, 1}

\* Body of UpdateVesselStateRequest: each counter absent or an int.
StateRequests == {NoneInt} \cup {PyInt(n) : n \in StoredCounters}

\* PATCH state: $set of the fields that are not None, with upsert.
update_vessel_state ==
  /\ \E eh \in StateRequests, tr \in StateRequests :
       vessel_states' =
         [exists |-> TRUE,
          engine_hours |-> IF eh = NoneInt THEN vessel_states.engine_hours ELSE eh,
          total_trips |-> IF tr = NoneInt THEN vessel_states.total_trips ELSE tr]
  /\ UNCHANGED <<maintenance_rules, maintenance_logs, trip_requests, vessel_state>>
  /\ UNCHANGED calc_vars

\* complete_trip up to its write: the state is read (or defaulted) and the
\* counters are advanced in the request's own copy.
complete_trip_read ==
  /\ \E r \in TripIds, d \in TripDurations :
       /\ ~trip_requests[r].active
       /\ Get(vessel_states.engine_hours) + d \in StoredCounters
       /\ Get(vessel_states.total_trips) + 1 \in StoredCounters
       /\ trip_requests' =
            [trip_requests EXCEPT
               ![r] = [active |-> TRUE,
                       engine_hours |-> Get(vessel_states.engine_hours) + d,
                       total_trips |-> Get(vessel_states.total_trips) + 1]]
  /\ UNCHANGED <<maintenance_rules, vessel_states, maintenance_logs, vessel_state>>
  /\ UNCHANGED calc_vars

\* complete_trip's write: $set of the request's copy, with upsert.
complete_trip_write ==
  /\ \E r \in TripIds :
       /\ trip_requests[r].active
       /\ vessel_states' = StateDoc(PyInt(trip_requests[r].engine_hours),
                                    PyInt(trip_requests[r].total_trips))
       /\ trip_requests' = [trip_requests EXCEPT ![r] = NoTrip]
  /\ UNCHANGED <<maintenance_rules, maintenance_logs, vessel_state>>
  /\ UNCHANGED calc_vars

\* The calculator's helper on a VesselState object.
update_vessel_state_after_trip(state, trip_duration_hours, trip_date) ==
  [state EXCEPT !.engine_hours = @ + trip_duration_hours,
                !.total_trips = @ + 1,
                !.last_trip_date = trip_date]

AfterTrip ==
  /\ \E d \in TripDurations :
       /\ vessel_state.engine_hours + d \in StoredCounters
       /\ vessel_state.total_trips + 1 \in StoredCounters
       /\ vessel_state' = update_vessel_state_after_trip(vessel_state, d, IsoStr("naive", now))
  /\ UNCHANGED store_vars
  /\ UNCHANGED calc_vars

\* The counter a log_maintenance request stores: the request's, or the
\* state's when the request gives none and the state document exists.
AutoFill(requested, state, field) ==
  IF requested = NoneInt /\ state.exists THEN PyInt(Get(field)) ELSE requested

RaisedToLogged(logged, state, field) ==
  IF logged # NoneInt THEN logged
  ELSE IF state.exists THEN field ELSE PyInt(0)

\* The state field after the log: raised to the logged counter when that is
\* higher, and set to its default when the document is created.
RaisedTo(logged, state, field) ==
  IF logged # NoneInt /\ logged.n > Get(field) THEN logged
  ELSE IF state.exists THEN field ELSE PyInt(0)

log_maintenance ==
  /\ Len(maintenance_logs) < MaxLogs
  /\ \E h \in CounterValues, t \in CounterValues :
       LET hours == AutoFill(h, vessel_states, vessel_states.engine_hours)
           trips == AutoFill(t, vessel_states, vessel_states.total_trips)
           updated == \/ hours # NoneInt /\ hours.n > Get(vessel_states.engine_hours)
                      \/ trips # NoneInt /\ trips.n > Get(vessel_states.total_trips)
       IN /\ maintenance_logs' =
               Append(maintenance_logs,
                      MaintenanceLog(Len(maintenance_logs) + 1, "engine", "Engine oil",
                                     Datetime(now, "naive"), IsoStr("naive", now),
                                     hours, trips))
          /\ vessel_states' =
               IF updated
               THEN StateDoc(RaisedTo(hours, vessel_states, vessel_states.engine_hours),
                             RaisedTo(trips, vessel_states, vessel_states.total_trips))
               ELSE vessel_states
  /\ UNCHANGED <<maintenance_rules, trip_requests, vessel_state>>
  /\ UNCHANGED calc_vars

NextVessel ==
  \/ update_vessel_state
  \/ complete_trip_read
  \/ complete_trip_write
  \/ AfterTrip
  \/ log_maintenance

\* A vessel with or without a state document, and with MaxLogs - 1 earlier
\* logs that gave no counters.
InitVessel ==
  /\ maintenance_rules = <<>>
  /\ vessel_states \in
       {NoState} \cup {StateDoc(PyInt(h), PyInt(t)) : h \in 0..MaxCounter, t \in 0..MaxCounter}
  /\ maintenance_logs =
       [i \in 1..(MaxLogs - 1) |->
          MaintenanceLog(i, "engine", "Engine oil", Datetime(1, "naive"),
                         IsoStr("naive", 1), NoneInt, NoneInt)]
  /\ trip_requests = [r \in TripIds |-> NoTrip]
  /\ InitIdle

SpecVessel == InitVessel /\ [][NextVessel]_vars

\* The counters of the stored state and of the VesselState object.
Counters ==
  << Get(vessel_states.engine_hours), Get(vessel_states.total_trips),
     vessel_state.engine_hours, vessel_state.total_trips >>

\* C17: no step lowers a counter of the vessel or leaves one negative.
C17_CountersMonotonic ==
  [][\A c \in 1..Len(Counters) :
       Counters[c]' >= Counters[c] /\ Counters[c]' >= 0]_vars

(***************************************************************************)
(* Range of the statuses (SpecRollup, SpecSummary).                        *)
(***************************************************************************)
\* C21: every system status the calculator has computed is operational,
\* due_soon or overdue, never critical or offline.
C21_SystemStatusRange ==
  \A s \in 1..Len(system_statuses) :
    system_statuses[s].status \in {"operational", "due_soon", "overdue"}

\* C21 witness: a returned summary with a system of two overdue parts and an
\* operational system.
C21_Witness ==
  /\ Returned
  /\ Len(system_statuses) = 2
  /\ Len(SelectByStatus(system_statuses[1].parts, "overdue")) = 2
  /\ system_statuses[1].status = "overdue"
  /\ system_statuses[2].status = "operational"

(***************************************************************************)
(* Frame of a summary computation (SpecSummary).                           *)
(***************************************************************************)
\* C23: no step of the computation changes the vessel state (engine_hours,
\* total_trips, last_trip_date), a rule or a log, or removes a log.
C23_InputsUnchanged ==
  [][/\ vessel_state' = vessel_state
     /\ all_rules' = all_rules
     /\ all_logs' = all_logs]_vars

\* C23 witness: a returned summary over MaxLogs logs, one of them selected
\* as the last service of the first part.
C23_Witness ==
  /\ Returned
  /\ Len(all_logs) = MaxLogs
  /\ Len(system_statuses) > 0
  /\ system_statuses[1].parts[1].last_service \in {all_logs[i] : i \in 1..Len(all_logs)}

(***************************************************************************)
(* Days rules (SpecPart).                                                  *)
(***************************************************************************)
\* The log selected for the first rule once the logs are folded.
FirstRuleLog == logs_by_system[<<FirstRule.system_id, FirstRule.part_name>>]

\* The run is over: it returned a summary or it raised.
Finished == pc \in {"done", "raised"}

\* C24: for a days rule whose selected log has a parseable done_at (naive or
\* with a zone), the finished computation reports current_value = the days
\* elapsed from done_at to the time of the computation, due_at_value =
\* interval_value and remaining = interval_value minus the elapsed days; a
\* done_at in the future gives a negative current_value and a remaining
\* above interval_value.
C24_DaysElapsed ==
  ( /\ Finished
    /\ FirstRule.trigger_type = "days"
    /\ FirstRule.interval_value > 0 /\ FirstRule.warning_before >= 0
    /\ FirstRuleLog # NoLog
    /\ FirstRuleLog.done_at.form \in {"naive", "aware"} )
  => /\ Returned
     /\ FirstPart.current_value = PyInt(now - FirstRuleLog.done_at.t)
     /\ FirstPart.due_at_value = PyInt(FirstRule.interval_value)
     /\ FirstPart.remaining =
          PyInt(FirstRule.interval_value - (now - FirstRuleLog.done_at.t))
     /\ FirstRuleLog.done_at.t > now =>
          /\ FirstPart.current_value.n < 0
          /\ FirstPart.remaining.n > FirstRule.interval_value

(***************************************************************************)
(* Summary computations side by side (SpecCalls): each invocation has its  *)
(* own arguments and its own locals, and the steps of the invocations      *)
(* interleave in any order.                                                *)
(***************************************************************************)
\* The logs_by_system mapping invocation i reads and writes: its own local.
CallLogsShared(cs, i) == cs[1].logs_by_system

CallLogs(cs, i) == cs[i].logs_by_system

StartCall(rules, state, logs, today) ==
  [all_rules |-> rules, all_logs |-> logs, vessel_state |-> state,
   now |-> today, pc |-> "group_rules", rules_by_system |-> <<>>,
   logs_by_system |-> EmptyLogsBySystem, li |-> 0,
   system_statuses |-> <<>>, overall_status |-> ""]

CallGroupRulesStep ==
  /\ \E i \in CallIds :
       LET c == calls[i]
           groups == GroupRules(c.all_rules, Len(c.all_rules))
       IN /\ c.pc = "group_rules"
          /\ calls' = [calls EXCEPT
                         ![i].rules_by_system = groups,
                         ![i].li = 1,
                         ![i].pc = IF Len(c.all_logs) > 0 THEN "group_logs"
                                   ELSE AfterLogs(groups)]
  /\ UNCHANGED <<all_rules, all_logs, vessel_state, now, pc, rules_by_system,
                 logs_by_system, li, system_statuses, overall_status>>
  /\ UNCHANGED store_vars

CallGroupLogStep ==
  /\ \E i \in CallIds :
       LET c == calls[i]
           r == KeepMostRecent(CallLogs(calls, i), c.all_logs[c.li])
       IN /\ c.pc = "group_logs"
          /\ calls' = [calls EXCEPT
                         ![i].logs_by_system = r.map,
                         ![i].li = c.li + 1,
                         ![i].pc = IF r.raised THEN "raised"
                                   ELSE IF c.li = Len(c.all_logs)
                                        THEN AfterLogs(c.rules_by_system)
                                   ELSE "group_logs"]
  /\ UNCHANGED <<all_rules, all_logs, vessel_state, now, pc, rules_by_system,
                 logs_by_system, li, system_statuses, overall_status>>
  /\ UNCHANGED store_vars

CallSystemStep ==
  /\ \E i \in CallIds :
       LET c == calls[i]
           group == c.rules_by_system[Len(c.system_statuses) + 1]
           statuses ==
             Append(c.system_statuses,
                    calculate_system_status(group.system_id,
                                            system_names(group.system_id),
                                            group.rules, c.vessel_state,
                                            CallLogs(calls, i), c.now))
       IN /\ c.pc = "systems"
          /\ calls' =
               IF SystemRaises(group.rules, CallLogs(calls, i))
               THEN [calls EXCEPT ![i].pc = "raised"]
               ELSE [calls EXCEPT
                       ![i].system_statuses = statuses,
                       ![i].pc = IF Len(statuses) = Len(c.rules_by_system)
                                 THEN "overall" ELSE "systems"]
  /\ UNCHANGED <<all_rules, all_logs, vessel_state, now, pc, rules_by_system,
                 logs_by_system, li, system_statuses, overall_status>>
  /\ UNCHANGED store_vars

CallOverallStep ==
  /\ \E i \in CallIds :
       /\ calls[i].pc = "overall"
       /\ calls' = [calls EXCEPT
                      ![i].overall_status = OverallStatus(calls[i].system_statuses),
                      ![i].pc = "done"]
  /\ UNCHANGED <<all_rules, all_logs, vessel_state, now, pc, rules_by_system,
                 logs_by_system, li, system_statuses, overall_status>>
  /\ UNCHANGED store_vars

NextCalls ==
  \/ CallGroupRulesStep
  \/ CallGroupLogStep
  \/ CallSystemStep
  \/ CallOverallStep

\* The arguments of an invocation: one or two rules, up to MaxLogs logs of
\* the first rule's part, and a vessel state.
CallRules ==
  { <<MaintenanceRule("engine", "Engine oil", "hours", MaxInterval, 0)>>,
    <<MaintenanceRule("nets", "Fuel filter", "trips", MaxInterval, MaxWarning),
      MaintenanceRule("engine", "Engine oil", "hours", MaxInterval, 0)>> }

CallLogList(n) ==
  [k \in 1..n |->
     MaintenanceLog(k, "engine", "Engine oil", Datetime(k, "naive"),
                    IsoStr("naive", 1), PyInt(MaxCounter), NoneInt)]

InitCalls ==
  /\ EmptyStore
  /\ all_rules = <<>>
  /\ all_logs = <<>>
  /\ vessel_state = VesselState(0, 0)
  /\ now = 1
  /\ pc = "done"
  /\ rules_by_system = <<>>
  /\ logs_by_system = EmptyLogsBySystem
  /\ li = 0
  /\ system_statuses = <<>>
  /\ overall_status = "operational"
  /\ calls \in
       [CallIds ->
          {StartCall(rules, VesselState(eh, eh), CallLogList(n), MaxTime + 1) :
             rules \in CallRules, eh \in 0..(MaxCounter + 1), n \in 0..MaxLogs}]

SpecCalls == InitCalls /\ [][NextCalls]_vars

\* What invocation i returns when it runs alone.
Alone(i) ==
  calculate_vessel_maintenance_summary(calls[i].all_rules, calls[i].vessel_state,
                                       calls[i].all_logs, calls[i].now)

\* C22: whatever the interleaving, an invocation that has finished returned
\* the summary it returns when run alone on its rules, state and logs (or
\* raised as it does alone).
C22_SameAsAlone ==
  \A i \in CallIds :
    /\ calls[i].pc = "done" =>
         /\ ~Alone(i).raised
         /\ calls[i].system_statuses = Alone(i).systems
         /\ calls[i].overall_status = Alone(i).overall_status
    /\ calls[i].pc = "raised" => Alone(i).raised

\* C22 witness: two invocations on different arguments have both returned,
\* with different summaries.
C22_Witness ==
  /\ calls[1].pc = "done" /\ calls[2].pc = "done"
  /\ calls[1].all_logs # calls[2].all_logs
  /\ calls[1].vessel_state # calls[2].vessel_state
  /\ calls[1].system_statuses # calls[2].system_statuses
  /\ calls[1].overall_status # calls[2].overall_status

(***************************************************************************)
(* Trips alone (SpecTrips): only complete_trip requests and the helper     *)
(* update_vessel_state_after_trip act on the vessel.                       *)
(***************************************************************************)
NextTrips ==
  \/ complete_trip_read
  \/ complete_trip_write
  \/ AfterTrip

SpecTrips == InitVessel /\ [][NextTrips]_vars

\* A complete_trip request completes in this step.
TripCompletes ==
  \E r \in TripIds : trip_requests[r].active /\ ~trip_requests'[r].active

\* C27: every complete_trip call that completes leaves the stored
\* total_trips one above what it was just before the call completed, so that
\* n completed calls add n, however their reads and writes interleave.
C27_EachTripCounted ==
  [][TripCompletes =>
       Get(vessel_states.total_trips)' = Get(vessel_states.total_trips) + 1]_vars

(***************************************************************************)
(* log_maintenance and the stored counters (SpecLogging): the counters are *)
(* set by update_vessel_state and logs are added by log_maintenance.       *)
(***************************************************************************)
NextLogging ==
  \/ update_vessel_state
  \/ log_maintenance

SpecLogging == InitVessel /\ [][NextLogging]_vars

\* A log_maintenance request completes in this step.
LogInserted == Len(maintenance_logs') = Len(maintenance_logs) + 1

\* The counter after a log that reports `logged`: the higher of the two.
AfterLog(logged, before) ==
  IF logged # NoneInt /\ logged.n > before THEN logged.n ELSE before

OwnLog ==
  MaintenanceLog(3, "engine", "Engine oil", NoneDt, IsoStr("naive", 1),
                 PyInt(MaxCounter), NoneInt)

OtherDoneValues == {IsoStr("naive", 1), IsoStr("aware", 1), IsoStr("bad", 0)}

OtherLogs(id) ==
  {MaintenanceLog(id, "nets", "Fuel filter", NoneDt, d, NoneInt, NoneInt) :
     d \in OtherDoneValues}

InitOthers ==
  /\ all_rules \in
       {<<>>, <<MaintenanceRule("engine", "Engine oil", "hours", MaxInterval, MaxWarning)>>}
  /\ \E a \in OtherLogs(1), b \in OtherLogs(2) :
       all_logs \in {<<a, b>>, <<OwnLog, a, b>>, <<a, OwnLog, b>>, <<a, b, OwnLog>>}
  /\ \E eh \in 0..(MaxCounter + 1) : vessel_state = VesselState(eh, 0)
  /\ now = MaxTime + 1
  /\ InitRun

SpecOthers == InitOthers /\ [][Next]_vars

\* The logs whose (system_id, part_name) is the rule's.
LogsOfRule(rule) ==
  SelectSeq(all_logs, LAMBDA l : /\ l.system_id = rule.system_id
                                 /\ l.part_name = rule.part_name)

\* The status of the rule's part computed from its own logs only.
PartAlone(rule) ==
  calculate_vessel_maintenance_summary(<<rule>>, vessel_state, LogsOfRule(rule), now)

\* C29: a part's status, remaining and last_service are those computed from
\* the rule, the vessel state and the logs of the rule's own key alone,
\* whatever the logs of other parts and systems are, and last_service is
\* absent or one of the input logs with the rule's key.
C29_OtherLogsIgnored ==
  Finished =>
    \A i \in 1..Len(all_rules) :
      LET rule == all_rules[i]
          alone == PartAlone(rule)
      IN ~alone.raised =>
           /\ Returned
           /\ \E s \in 1..Len(system_statuses) :
                \E p \in 1..Len(system_statuses[s].parts) :
                  LET part == system_statuses[s].parts[p]
                      expected == alone.systems[1].parts[1]
                  IN /\ system_statuses[s].system_id = rule.system_id
                     /\ part.name = rule.part_name
                     /\ part.status = expected.status
                     /\ part.remaining = expected.remaining
                     /\ part.last_service = expected.last_service
                     /\ \/ part.last_service = NoLog
                        \/ \E k \in 1..Len(LogsOfRule(rule)) :
                             part.last_service = LogsOfRule(rule)[k]

\* C30: a finished computation has returned a summary in which no rules give
\* no systems and the overall status operational whatever the logs; a system
\* appears only if a rule names it, logs or not; and the overall status is
\* operational, due_soon or overdue.
C30_RulesDecideSystems ==
  Finished =>
    /\ Returned
    /\ all_rules = <<>> =>
         system_statuses = <<>> /\ overall_status = "operational"
    /\ \A s \in 1..Len(system_statuses) :
         system_statuses[s].system_id \in RuleSystems
    /\ overall_status \in {"operational", "due_soon", "overdue"}

(***************************************************************************)
(* The summary endpoint over the store (SpecService).  The rules, the      *)
(* state and the logs are read from the collections and validated, and the *)
(* calculator runs on them without a suspension point.  One summary is     *)
(* requested per behaviour, after any number of other requests.            *)
(***************************************************************************)
\* Literal["hours", "days", "trips", "sensor"] of MaintenanceRule.
LiteralTriggers == {"hours", "days", "trips", "sensor"}

\* MaintenanceRule(**rule) raises ValidationError unless the trigger type is
\* one of the literals.
RuleValidates(rule) == rule.trigger_type \in LiteralTriggers

\* VesselState(**state), or the default state when there is no document.
StateOf(doc) ==
  IF doc.exists THEN VesselState(Get(doc.engine_hours), Get(doc.total_trips))
  ELSE VesselState(0, 0)

\* What get_maintenance_summary answers from the store as it is.
StoreSummary ==
  IF \E i \in 1..Len(maintenance_rules) : ~RuleValidates(maintenance_rules[i])
  THEN [raised |-> TRUE, systems |-> <<>>, overall_status |-> "operational"]
  ELSE calculate_vessel_maintenance_summary(maintenance_rules, StateOf(vessel_states),
                                            maintenance_logs, now)

get_maintenance_summary ==
  /\ all_rules' = SelectSeq(maintenance_rules, RuleValidates)
  /\ all_logs' = maintenance_logs
  /\ vessel_state' = StateOf(vessel_states)
  /\ rules_by_system' = GroupRules(all_rules', Len(all_rules'))
  /\ logs_by_system' = GroupLogs(all_logs', Len(all_logs')).map
  /\ li' = Len(all_logs') + 1
  /\ system_statuses' = StoreSummary.systems
  /\ overall_status' = StoreSummary.overall_status
  /\ pc' = IF StoreSummary.raised THEN "raised" ELSE "done"
  /\ UNCHANGED <<now, calls>>
  /\ UNCHANGED store_vars

\* The clock that datetime.now() reads, in units of the stored precision:
\* two requests may read the same value.
Tick ==
  /\ now < MaxTime
  /\ now' = now + 1
  /\ UNCHANGED <<all_rules, all_logs, vessel_state, pc, rules_by_system,
                 logs_by_system, li, system_statuses, overall_status, calls>>
  /\ UNCHANGED store_vars

NextService ==
  \/ pc = "idle" /\ get_maintenance_summary
  \/ pc = "idle" /\ log_maintenance
  \/ pc = "idle" /\ update_vessel_state
  \/ pc = "idle" /\ Tick

\* An hours rule on the part the logs are about, alone or with a rule, on
\* another part, whose trigger type this version does not define.
ServiceRules ==
  LET oil == MaintenanceRule("engine", "Engine oil", "hours", MaxInterval, 0)
      gauge == MaintenanceRule("nets", "Fuel filter", "pressure", MaxInterval, 0)
  IN {<<oil>>, <<oil, gauge>>, <<gauge, oil>>}

InitService ==
  /\ maintenance_rules \in ServiceRules
  /\ vessel_states \in {NoState} \cup {StateDoc(PyInt(h), PyInt(h)) : h \in 0..MaxCounter}
  /\ maintenance_logs = <<>>
  /\ trip_requests = [r \in TripIds |-> NoTrip]
  /\ all_rules = <<>>
  /\ all_logs = <<>>
  /\ vessel_state = VesselState(0, 0)
  /\ now = 1
  /\ pc = "idle"
  /\ rules_by_system = <<>>
  /\ logs_by_system = EmptyLogsBySystem
  /\ li = 0
  /\ system_statuses = <<>>
  /\ overall_status = ""
  /\ calls = [i \in CallIds |-> NoCall]

SpecService == InitService /\ [][NextService]_vars

\* Every stored rule passes MaintenanceRule's validation.
AllRulesValidate ==
  \A i \in 1..Len(maintenance_rules) : RuleValidates(maintenance_rules[i])

NewLog == maintenance_logs[Len(maintenance_logs)]

\* C25: right after a log_maintenance call that supplied no counters (they
\* were filled from the stored state), the summary of the store selects the
\* new log as the last service of the log's part and reports, for an hours
\* or trips rule on that part, remaining = interval_value.
C25_LogResetsCountdown ==
  [][( /\ LogInserted
       /\ vessel_states.exists
       /\ AllRulesValidate
       /\ NewLog'.engine_hours_at_service = PyInt(Get(vessel_states.engine_hours))
       /\ NewLog'.trips_at_service = PyInt(Get(vessel_states.total_trips)) )
     => /\ ~StoreSummary'.raised
        /\ \A s \in 1..Len(StoreSummary'.systems) :
             LET sys == StoreSummary'.systems[s]
                 rules == SelectSeq(maintenance_rules,
                                    LAMBDA r : r.system_id = sys.system_id)
             IN \A p \in 1..Len(sys.parts) :
                  ( /\ sys.system_id = NewLog'.system_id
                    /\ sys.parts[p].name = NewLog'.part_name
                    /\ sys.parts[p].trigger_type \in {"hours", "trips"} )
                  => /\ sys.parts[p].last_service = NewLog'
                     /\ sys.parts[p].remaining = PyInt(rules[p].interval_value)]_vars

====
